---------------------------- MODULE Spec2Model ----------------------------
(***************************************************************************)
(* Model of the Xcode project tree provider (xcode-node-provider.ts, the   *)
(* revision with sortKey and BuildFileNode): the five node classes, the    *)
(* provider's resolveChildren, and the path / sort-key computations.       *)
(* Strings are TLC strings; characters are one-character substrings.       *)
(***************************************************************************)
EXTENDS Integers, Sequences, FiniteSets, TLC

(***************************************************************************)
(* Bounds of the model.                                                    *)
(***************************************************************************)
\* Longest child list generated for the group G1 of the generated project.
MaxChildren == 3
\* Most nodes the host keeps alive (nodes are never freed by the provider).
MaxNodes == 8

(***************************************************************************)
(* Strings.                                                                *)
(***************************************************************************)
Ch(s, i) == SubSeq(s, i, i)

Quote == "\""

\* JavaScript's undefined, for a record field the pbxproj file does not give.
Undefined == "<undefined>"

RECURSIVE MatchesXcodeproj_unanchored(_)
\* MatchesXcodeproj with the bug of a pattern without the $ anchor:
\* ".xcodeproj" anywhere in the name.
MatchesXcodeproj_unanchored(file) ==
  LET suffix == ".xcodeproj"
  IN  /\ Len(file) >= Len(suffix)
      /\ \/ SubSeq(file, Len(file) - Len(suffix) + 1, Len(file)) = suffix
         \/ MatchesXcodeproj_unanchored(SubSeq(file, 1, Len(file) - 1))

\* file.match(/\.xcodeproj$/): the name ends with the literal ".xcodeproj".
MatchesXcodeproj(file) ==
  LET suffix == ".xcodeproj"
  IN  /\ Len(file) >= Len(suffix)
      /\ SubSeq(file, Len(file) - Len(suffix) + 1, Len(file)) = suffix

\* StripQuotes with the bug of a pattern without the |"$ alternative: only
\* the quote at the start is removed.
StripQuotes_leadingOnly(s) ==
  IF Len(s) > 0 /\ Ch(s, 1) = Quote THEN SubSeq(s, 2, Len(s)) ELSE s

\* ref.path.replace(/(^"|"$)/g, ''): one quote removed at the start, if
\* there is one, and one at the end of what is left, if there is one.
StripQuotes(s) ==
  LET a == IF Len(s) > 0 /\ Ch(s, 1) = Quote THEN SubSeq(s, 2, Len(s)) ELSE s
  IN  IF Len(a) > 0 /\ Ch(a, Len(a)) = Quote
        THEN SubSeq(a, 1, Len(a) - 1)
        ELSE a

(***************************************************************************)
(* path.join of Node (posix): the non-empty arguments joined with "/" and  *)
(* normalized ("." and ".." resolved, repeated separators collapsed).      *)
(***************************************************************************)
RECURSIVE SplitFrom(_, _, _)
\* The components of p between separators, from position i on; cur is the
\* component being collected.  Empty components are dropped.
SplitFrom(p, i, cur) ==
  IF i > Len(p)
    THEN IF cur = "" THEN <<>> ELSE <<cur>>
    ELSE IF Ch(p, i) = "/"
           THEN (IF cur = "" THEN <<>> ELSE <<cur>>) \o SplitFrom(p, i + 1, "")
           ELSE SplitFrom(p, i + 1, cur \o Ch(p, i))

RECURSIVE NormalizeArray(_, _, _)
\* normalizeStringPosix on the components: "." dropped, ".." pops the last
\* kept component, or is kept when nothing can be popped and the path is
\* relative (allowAboveRoot).
NormalizeArray(comps, acc, allowAboveRoot) ==
  IF comps = <<>>
    THEN acc
    ELSE LET c == Head(comps)
             rest == Tail(comps)
         IN  IF c = "."
               THEN NormalizeArray(rest, acc, allowAboveRoot)
               ELSE IF c = ".."
                 THEN IF acc # <<>> /\ acc[Len(acc)] # ".."
                        THEN NormalizeArray(rest, SubSeq(acc, 1, Len(acc) - 1),
                                            allowAboveRoot)
                        ELSE IF allowAboveRoot
                               THEN NormalizeArray(rest, Append(acc, ".."),
                                                   allowAboveRoot)
                               ELSE NormalizeArray(rest, acc, allowAboveRoot)
                 ELSE NormalizeArray(rest, Append(acc, c), allowAboveRoot)

RECURSIVE JoinComps(_)
JoinComps(comps) ==
  IF comps = <<>>
    THEN ""
    ELSE IF Len(comps) = 1
           THEN comps[1]
           ELSE comps[1] \o "/" \o JoinComps(Tail(comps))

\* path.normalize
Normalize(p) ==
  IF p = ""
    THEN "."
    ELSE LET isAbsolute == Ch(p, 1) = "/"
             trailingSeparator == Ch(p, Len(p)) = "/"
             s1 == JoinComps(NormalizeArray(SplitFrom(p, 1, ""), <<>>,
                                            ~isAbsolute))
             s2 == IF s1 = "" /\ ~isAbsolute THEN "." ELSE s1
             s3 == IF s2 # "" /\ trailingSeparator THEN s2 \o "/" ELSE s2
         IN  IF isAbsolute THEN "/" \o s3 ELSE s3

RECURSIVE JoinArgs(_)
\* The non-empty arguments of path.join, joined with "/".
JoinArgs(args) ==
  IF args = <<>>
    THEN ""
    ELSE LET rest == JoinArgs(Tail(args))
         IN  IF Head(args) = ""
               THEN rest
               ELSE IF rest = "" THEN Head(args)
                                 ELSE Head(args) \o "/" \o rest

\* path.join(...args)
PathJoin(args) == Normalize(JoinArgs(args))

(***************************************************************************)
(* String.prototype.localeCompare as the extension host (V8 with ICU, root *)
(* collation) computes it for the characters that occur in sort keys:      *)
(* first the letters are compared without regard to case (punctuation      *)
(* before digits before letters), and only when that finds no difference   *)
(* does the case decide, lower case before upper case.                     *)
(***************************************************************************)
LowerCase == "abcdefghijklmnopqrstuvwxyz"
UpperCase == "ABCDEFGHIJKLMNOPQRSTUVWXYZ"
CollationOrder == " _-.0123456789" \o LowerCase

RECURSIVE IndexIn(_, _, _)
\* The position of character c in s at or after i; 0 when it is not there.
IndexIn(c, s, i) ==
  IF i > Len(s) THEN 0 ELSE IF Ch(s, i) = c THEN i ELSE IndexIn(c, s, i + 1)

UpperCaseChars == {Ch(UpperCase, i) : i \in 1..Len(UpperCase)}

IsUpper(c) == c \in UpperCaseChars

ToLower(c) == IF IsUpper(c) THEN Ch(LowerCase, IndexIn(c, UpperCase, 1)) ELSE c

\* The first-level weight of every character of the collation order.
PrimaryWeights ==
  LET all == CollationOrder \o UpperCase
  IN  [c \in {Ch(all, i) : i \in 1..Len(all)} |->
         IndexIn(ToLower(c), CollationOrder, 1)]

PrimaryWeight(c) == PrimaryWeights[c]

RECURSIVE ComparePrimary(_, _, _)
ComparePrimary(a, b, i) ==
  IF i > Len(a) /\ i > Len(b) THEN 0
  ELSE IF i > Len(a) THEN -1
  ELSE IF i > Len(b) THEN 1
  ELSE IF PrimaryWeight(Ch(a, i)) < PrimaryWeight(Ch(b, i)) THEN -1
  ELSE IF PrimaryWeight(Ch(a, i)) > PrimaryWeight(Ch(b, i)) THEN 1
  ELSE ComparePrimary(a, b, i + 1)

RECURSIVE CompareCase(_, _, _)
\* Called on strings of the same length that agree up to case.
CompareCase(a, b, i) ==
  IF i > Len(a) THEN 0
  ELSE IF ~IsUpper(Ch(a, i)) /\ IsUpper(Ch(b, i)) THEN -1
  ELSE IF IsUpper(Ch(a, i)) /\ ~IsUpper(Ch(b, i)) THEN 1
  ELSE CompareCase(a, b, i + 1)

\* a.localeCompare(b): negative, zero or positive.
LocaleCompare(a, b) ==
  LET p == ComparePrimary(a, b, 1)
  IN  IF p # 0 THEN p ELSE CompareCase(a, b, 1)

(***************************************************************************)
(* The project file as xcode-proj hands it over after parseSync: the       *)
(* PBXGroup, PBXFileReference and PBXBuildFile sections keyed by           *)
(* identifier.  Strings keep the quotes the file has around them.          *)
(***************************************************************************)
\* One entry of a group's children array: { value, comment }.
Child(value, comment) == [value |-> value, comment |-> comment]

\* The comment the file gives with an identifier (the referenced name).
CommentOf(id) ==
  CASE id = "G1" -> "Sources"
    [] id = "G2" -> "utils"
    [] id = "G3" -> "Utils"
    [] id = "F0" -> "Info.plist"
    [] id = "F1" -> "main.swift"
    [] id = "F2" -> "Zeta.h"
    [] id = "R1" -> "Zeta.h"
    [] OTHER -> "Gone.m"

\* Identifiers a generated child list of G1 draws from: two groups, the
\* file reference F1 (also the fileRef of a build file), R1 known only as
\* the fileRef of a build file, X1 found in no section.
ChildIds == {"G2", "G3", "F1", "R1", "X1"}

ChildLists ==
  UNION {[1..k -> {Child(id, CommentOf(id)) : id \in ChildIds}] : k \in 0..MaxChildren}

\* The project file with G1's child list cl, the path fields g1path and
\* g3path of the groups G1 and G3 (Undefined: the group has no path field)
\* and the path field f2path of the file reference F2.  The main group MG
\* lists the group G1 and the file reference F0; G2, which has no path
\* field, lists G3; G3 lists F2 and G1 again.
PbxProject(cl, g1path, g3path, f2path) ==
  [ rootObject |-> "P0",
    pbxProjectSection |-> [P0 |-> [mainGroup |-> "MG"]],
    pbxGroupSection |->
      [MG |-> [children |-> <<Child("G1", "Sources"), Child("F0", "Info.plist")>>,
               path |-> Undefined],
       G1 |-> [children |-> cl, path |-> g1path],
       G2 |-> [children |-> <<Child("G3", "Utils")>>, path |-> Undefined],
       G3 |-> [children |-> <<Child("F2", "Zeta.h"), Child("G1", "Sources")>>,
               path |-> g3path]],
    pbxFileReferenceSection |->
      [F0 |-> [path |-> "Info.plist"],
       F1 |-> [path |-> "main.swift"],
       F2 |-> [path |-> f2path]],
    pbxBuildFileSection |->
      [B1 |-> [fileRef |-> "F1", fileRef_comment |-> "main.swift"],
       B2 |-> [fileRef |-> "R1", fileRef_comment |-> "Zeta.h"]],
    \* Object.keys(pbxBuildFileSection), in the order of the file
    pbxBuildFileKeys |-> <<"B1", "B2">> ]

\* What parseSync finds at a bundle's project.pbxproj: no file, a file that
\* does not parse, or a project.
Missing == [state |-> "missing"]
Malformed == [state |-> "malformed"]
Parsable(project) == [state |-> "parsable", project |-> project]
Parses(content) == content.state = "parsable"

\* readdirSync of a directory that cannot be read throws.
Unreadable == <<"<unreadable>">>

\* proj.getPBXGroupByKey(key) is not undefined
IsPBXGroup(proj, key) == key \in DOMAIN proj.pbxGroupSection

\* proj.getPBXGroupByKey(key), where it is defined
GetPBXGroupByKey(proj, key) == proj.pbxGroupSection[key]

(***************************************************************************)
(* The node classes: a node is a record of its constructor's arguments.    *)
(* parent is the position of the parent node in nodes, project the         *)
(* position of the parsed project in projects.                             *)
(***************************************************************************)
RootNode(rootPath_) ==
  [kind |-> "Root", hasChildren |-> TRUE, clickCommand |-> Undefined,
   rootPath |-> rootPath_]

ProjectNode(file, parent) ==
  [kind |-> "Project", hasChildren |-> TRUE, clickCommand |-> Undefined,
   file |-> file, parent |-> parent]

GroupNode(project, data, parent) ==
  [kind |-> "Group", hasChildren |-> TRUE, clickCommand |-> Undefined,
   project |-> project, data |-> data, parent |-> parent]

BuildFileNode(project, data, parent) ==
  [kind |-> "BuildFile", hasChildren |-> FALSE, clickCommand |-> Undefined,
   project |-> project, data |-> data, parent |-> parent]

FileNode(project, data, parent) ==
  [kind |-> "File", hasChildren |-> FALSE,
   clickCommand |-> "extension.openXcodeFileNode",
   project |-> project, data |-> data, parent |-> parent]

VARIABLES
  host,                \* how the host walks the tree: "top-down" or "any"
  rootPath,            \* XcodeNodeProvider.rootPath
  listing,             \* what readdirSync(rootPath) returns, or Unreadable
  disk,                \* bundle name -> content of its project.pbxproj
  nodes,               \* every node constructed so far, in construction order
  projects,            \* every project parsed so far (one per parseSync)
  returned,            \* per node: what its latest children() call returned
  last                 \* the latest call of the host and its outcome

vars == <<host, rootPath, listing, disk, nodes, projects, returned, last>>

\* The result of a call that ended in a TypeError.
TypeError == "<TypeError>"

Range(s) == {s[i] : i \in 1..Len(s)}

(***************************************************************************)
(* label()                                                                 *)
(***************************************************************************)
RootNode_label(node) == "Xcode"

ProjectNode_label(node) == node.file

GroupNode_label(node) == node.data.comment

BuildFileNode_label(node) == node.data.fileRef_comment

FileNode_label(node) == node.data.comment

Label(node) ==
  CASE node.kind = "Root" -> RootNode_label(node)
    [] node.kind = "Project" -> ProjectNode_label(node)
    [] node.kind = "Group" -> GroupNode_label(node)
    [] node.kind = "BuildFile" -> BuildFileNode_label(node)
    [] node.kind = "File" -> FileNode_label(node)

(***************************************************************************)
(* sortKey()                                                               *)
(***************************************************************************)
\* directoriesFirst is the value the call reads from the configuration
\* xcodeProject.directoriesFirst.
XcodeNode_sortKey(node) == "001-" \o Label(node)

\* GroupNode_sortKey with the bug of not reading the setting.
GroupNode_sortKey_noBucket(node, directoriesFirst) ==
  "001" \o "-" \o GroupNode_label(node)

GroupNode_sortKey(node, directoriesFirst) ==
  LET prefix == IF directoriesFirst THEN "000" ELSE "001"
  IN  prefix \o "-" \o GroupNode_label(node)

SortKey(node, directoriesFirst) ==
  IF node.kind = "Group" THEN GroupNode_sortKey(node, directoriesFirst)
                         ELSE XcodeNode_sortKey(node)

(***************************************************************************)
(* path(): the walk up the parent links.                                   *)
(***************************************************************************)
\* GroupNode.group() is not undefined
GroupNode_hasGroup(node) ==
  IsPBXGroup(projects[node.project], node.data.value)

\* GroupNode.group(), where it is defined
GroupNode_group(node) ==
  GetPBXGroupByKey(projects[node.project], node.data.value)

RECURSIVE Path(_)

RootNode_path(n) == nodes[n].rootPath

ProjectNode_path(n) == PathJoin(<<Path(nodes[n].parent)>>)

GroupNode_path(n) ==
  LET parentPath == Path(nodes[n].parent)
  IN  IF parentPath = TypeError \/ ~GroupNode_hasGroup(nodes[n])
        THEN TypeError
        ELSE LET grouPath == GroupNode_group(nodes[n]).path
             IN  IF grouPath # Undefined /\ grouPath # ""
                   THEN PathJoin(<<parentPath, grouPath>>)
                   ELSE parentPath

BuildFileNode_path(n) ==
  LET parentPath == Path(nodes[n].parent)
  IN  IF parentPath = TypeError
        THEN TypeError
        ELSE PathJoin(<<parentPath, nodes[n].data.fileRef_comment>>)

FileNode_path(n) ==
  LET refs == projects[nodes[n].project].pbxFileReferenceSection
      ref == refs[nodes[n].data.value]
      fileName == StripQuotes(ref.path)
      parentPath == Path(nodes[n].parent)
  IN  IF parentPath = TypeError
        THEN TypeError
        ELSE PathJoin(<<parentPath, fileName>>)

Path(n) ==
  CASE nodes[n].kind = "Root" -> RootNode_path(n)
    [] nodes[n].kind = "Project" -> ProjectNode_path(n)
    [] nodes[n].kind = "Group" -> GroupNode_path(n)
    [] nodes[n].kind = "BuildFile" -> BuildFileNode_path(n)
    [] nodes[n].kind = "File" -> FileNode_path(n)

RECURSIVE PathSteps(_)
\* The calls of this.parent.path() made, one inside the other, before
\* path() on the node n returns or throws: none in RootNode.path, one in
\* the path() of every other class.
PathSteps(n) ==
  IF nodes[n].kind = "Root" THEN 0 ELSE 1 + PathSteps(nodes[n].parent)

(***************************************************************************)
(* children(): the nodes a call constructs, in the order of the array it   *)
(* returns.                                                                *)
(***************************************************************************)
RECURSIVE Filter_stopAtUndefined(_, _)
\* Filter with the bug of ending at the first undefined element.
Filter_stopAtUndefined(s, i) ==
  IF i > Len(s) \/ s[i] = <<>> THEN <<>>
  ELSE s[i] \o Filter_stopAtUndefined(s, i + 1)

RECURSIVE Filter(_, _)
\* Array.prototype.filter((node) => node) on the result of a map, each
\* element given as <<node>>, or as <<>> for undefined.
Filter(s, i) ==
  IF i > Len(s) THEN <<>> ELSE s[i] \o Filter(s, i + 1)

RootNode_children(n) ==
  LET files == listing
      made == [i \in 1..Len(files) |->
                 IF MatchesXcodeproj(files[i]) THEN <<ProjectNode(files[i], n)>>
                                               ELSE <<>>]
  IN  Filter(made, 1)

\* ProjectNode_children with the bug of keeping the project parsed first in a
\* variable of the module, for every Project node to hand down.
ProjectNode_children_sharedModel(n, proj, p) ==
  LET projSection == proj.pbxProjectSection
      mainGroup == GetPBXGroupByKey(proj, projSection[proj.rootObject].mainGroup)
  IN  [i \in 1..Len(mainGroup.children) |-> GroupNode(1, mainGroup.children[i], n)]

\* proj is the project parseSync has just produced, kept at position p.
ProjectNode_children(n, proj, p) ==
  LET projSection == proj.pbxProjectSection
      mainGroup == GetPBXGroupByKey(proj, projSection[proj.rootObject].mainGroup)
  IN  [i \in 1..Len(mainGroup.children) |-> GroupNode(p, mainGroup.children[i], n)]

RECURSIVE FindKey(_, _, _, _)
\* bfileKeys.find((key) => bfileSec[key].fileRef === value)
FindKey(bfileKeys, bfileSec, value, i) ==
  IF i > Len(bfileKeys) THEN Undefined
  ELSE IF bfileSec[bfileKeys[i]].fileRef = value THEN bfileKeys[i]
  ELSE FindKey(bfileKeys, bfileSec, value, i + 1)

\* GroupNode_mapChild with the bug of looking in the build-file section
\* before the file-reference section.
GroupNode_mapChild_buildFileFirst(n, child) ==
  LET node == nodes[n]
      project == projects[node.project]
      bfileSec == project.pbxBuildFileSection
      bfileKey == FindKey(project.pbxBuildFileKeys, bfileSec, child.value, 1)
  IN  IF IsPBXGroup(project, child.value)
        THEN <<GroupNode(node.project, child, n)>>
      ELSE IF bfileKey # Undefined
        THEN <<BuildFileNode(node.project, bfileSec[bfileKey], n)>>
      ELSE IF child.value \in DOMAIN project.pbxFileReferenceSection
        THEN <<FileNode(node.project, child, n)>>
      ELSE <<>>

\* The callback of the map in GroupNode.children, on one entry of the
\* group's children array: <<the node it returns>>, or <<>> for undefined
\* (after the warning "Unknown child").
\* GroupNode_mapChild with the bug of giving the nodes it makes, as their
\* parent, the first of them instead of this.
GroupNode_mapChild_parentAhead(n, child) ==
  LET node == nodes[n]
      project == projects[node.project]
      bfileSec == project.pbxBuildFileSection
      bfileKeys == project.pbxBuildFileKeys
      value == child.value
      bfileKey == FindKey(bfileKeys, bfileSec, value, 1)
      first == Len(nodes) + 1
  IN  IF IsPBXGroup(project, value)
        THEN <<GroupNode(node.project, child, first)>>
      ELSE IF value \in DOMAIN project.pbxFileReferenceSection
        THEN <<FileNode(node.project, child, first)>>
      ELSE IF bfileKey # Undefined
        THEN <<BuildFileNode(node.project, bfileSec[bfileKey], first)>>
      ELSE <<>>

GroupNode_mapChild(n, child) ==
  LET node == nodes[n]
      project == projects[node.project]
      bfileSec == project.pbxBuildFileSection
      bfileKeys == project.pbxBuildFileKeys
      value == child.value
      bfileKey == FindKey(bfileKeys, bfileSec, value, 1)
  IN  IF IsPBXGroup(project, value)
        THEN <<GroupNode(node.project, child, n)>>
      ELSE IF value \in DOMAIN project.pbxFileReferenceSection
        THEN <<FileNode(node.project, child, n)>>
      ELSE IF bfileKey # Undefined
        THEN <<BuildFileNode(node.project, bfileSec[bfileKey], n)>>
      ELSE <<>>

\* GroupNode_children as the revision before the build files had it: the
\* groups of the child list, then its file references.
GroupNode_children_groupsThenFiles(n) ==
  LET children == GroupNode_group(nodes[n]).children
      made == Filter([i \in 1..Len(children) |->
                        GroupNode_mapChild(n, children[i])], 1)
      IsGroup(node) == node.kind = "Group"
      IsOther(node) == node.kind # "Group"
  IN  SelectSeq(made, IsGroup) \o SelectSeq(made, IsOther)

\* GroupNode_children with the bug of keeping the array on the node and
\* pushing onto it at every call.
GroupNode_children_accumulating(n) ==
  LET children == GroupNode_group(nodes[n]).children
      made == Filter([i \in 1..Len(children) |->
                        GroupNode_mapChild(n, children[i])], 1)
  IN  IF returned[n].called THEN made \o made ELSE made

\* GroupNode_children with the change of reading the child list from the
\* pbxproj file as it is at the call, where the file still has the group.
GroupNode_children_rereading(n) ==
  LET RECURSIVE FileOf(_)
      FileOf(m) == IF nodes[m].kind = "Project" THEN nodes[m].file
                   ELSE FileOf(nodes[m].parent)
      content == disk[FileOf(n)]
      children == IF Parses(content)
                       /\ IsPBXGroup(content.project, nodes[n].data.value)
                    THEN GetPBXGroupByKey(content.project,
                                          nodes[n].data.value).children
                    ELSE GroupNode_group(nodes[n]).children
  IN  Filter([i \in 1..Len(children) |-> GroupNode_mapChild(n, children[i])], 1)

\* Called on a node whose group() is defined.
GroupNode_children(n) ==
  LET children == GroupNode_group(nodes[n]).children
  IN  Filter([i \in 1..Len(children) |-> GroupNode_mapChild(n, children[i])], 1)

(***************************************************************************)
(* resolveChildren: children.sort((a, b) =>                                *)
(* a.sortKey().localeCompare(b.sortKey())) when sortAlphabetically is set. *)
(* The sort is V8's on a short array: an insertion sort, which keeps the   *)
(* order of elements that compare equal.  It is run on positions into the  *)
(* array kids of the nodes just constructed.                               *)
(***************************************************************************)
Comparator(a, b, directoriesFirst) ==
  LocaleCompare(SortKey(a, directoriesFirst), SortKey(b, directoriesFirst))

RECURSIVE InsertSorted(_, _, _, _, _)
\* Position e inserted into the sorted s, after every element not greater.
InsertSorted(kids, s, e, i, directoriesFirst) ==
  IF i > Len(s) THEN Append(s, e)
  ELSE IF Comparator(kids[s[i]], kids[e], directoriesFirst) > 0
         THEN SubSeq(s, 1, i - 1) \o <<e>> \o SubSeq(s, i, Len(s))
         ELSE InsertSorted(kids, s, e, i + 1, directoriesFirst)

RECURSIVE ArraySort(_, _, _)
\* The positions 1..k of kids in sorted order.
ArraySort(kids, k, directoriesFirst) ==
  IF k = 0 THEN <<>>
  ELSE InsertSorted(kids, ArraySort(kids, k - 1, directoriesFirst), k, 1,
                    directoriesFirst)

\* The order in which resolveChildren returns the array kids of children(),
\* sortAlphabetically being the value it reads from the configuration
\* xcodeProject.sortAlphabetically.
ResolveOrder(kids, sortAlphabetically, directoriesFirst) ==
  IF sortAlphabetically
    THEN ArraySort(kids, Len(kids), directoriesFirst)
    ELSE [i \in 1..Len(kids) |-> i]

(***************************************************************************)
(* The state after the provider is constructed, and the calls of the host. *)
(***************************************************************************)
\* workspace.rootPath: the absolute, normalized path of the opened folder.
RootPaths == {"/ws", "/repo/App"}

\* The entries of the root directory in the main specification.
MainListing == <<"App.xcodeproj", "README.md">>

NotCalled == [called |-> FALSE, list |-> <<>>]

NoCall ==
  [op |-> "none", node |-> 0, outcome |-> "none", children |-> <<>>,
   result |-> <<>>, prev |-> NotCalled, sortAlphabetically |-> FALSE,
   directoriesFirst |-> FALSE, path |-> ""]

\* The provider as constructed, before the host's first call.
InitProvider ==
  /\ nodes = <<>>
  /\ projects = <<>>
  /\ returned = <<>>
  /\ last = NoCall

\* The bundles of the root directory.
Bundles == {"App.xcodeproj", "Lib.xcodeproj"}

\* The project the specifications other than the main one keep in
\* App.xcodeproj when they do not vary it.
ScenarioProject ==
  PbxProject(<<Child("G2", "utils"), Child("F1", "main.swift")>>,
             "Sources", "../Vendor", "\"Zeta Kit/Zeta.h\"")

\* The entries a root directory may hold, and every listing of some of
\* them, in this order.
DirEntries ==
  <<"App.xcodeproj", "App.xcodeproj.bak", "Lib.xcodeproj", "README.md",
    "xcodeproj">>

RECURSIVE Pick(_, _)
\* The entries of DirEntries at the positions in S, from position i on.
Pick(S, i) ==
  IF i > Len(DirEntries) THEN <<>>
  ELSE (IF i \in S THEN <<DirEntries[i]>> ELSE <<>>) \o Pick(S, i + 1)

Listings == {Pick(S, 1) : S \in SUBSET (1..Len(DirEntries))}

\* The path fields the specification of the paths gives the groups G1 and
\* G3 and the file reference F2.
G1Paths == {Undefined, "Sources"}
G3Paths == {Undefined, "../Vendor", "\"My Lib\""}
FilePaths == {"Zeta.h", "\"Sources/main.swift\"", "\"\\\"Zeta\\\".h\""}

\* The main specification: a top-down host; the root holds App.xcodeproj,
\* whose group G1 has any child list.
Init ==
  /\ host = "top-down"
  /\ rootPath = "/ws"
  /\ listing = MainListing
  /\ \E cl \in ChildLists :
       disk = [b \in Bundles |->
                 IF b = "App.xcodeproj"
                   THEN Parsable(PbxProject(cl, "Sources", "../Vendor",
                                            "\"Zeta Kit/Zeta.h\""))
                   ELSE Malformed]
  /\ InitProvider

\* The specification of the directory: any listing of the root directory,
\* or none; App.xcodeproj holds the scenario's project, the project file of
\* Lib.xcodeproj is missing or does not parse.
InitFiles ==
  /\ host = "top-down"
  /\ rootPath = "/ws"
  /\ listing \in Listings \cup {Unreadable}
  /\ \E broken \in {Missing, Malformed} :
       disk = [b \in Bundles |->
                 IF b = "App.xcodeproj" THEN Parsable(ScenarioProject)
                                        ELSE broken]
  /\ InitProvider

\* The specification of the paths: any root path, any path fields of the
\* groups G1 and G3 and of the file reference F2 below them.
InitPaths ==
  /\ host = "top-down"
  /\ rootPath \in RootPaths
  /\ listing = MainListing
  /\ \E g1path \in G1Paths, g3path \in G3Paths, f2path \in FilePaths :
       disk = [b \in Bundles |->
                 IF b = "App.xcodeproj"
                   THEN Parsable(PbxProject(<<Child("G2", "utils")>>,
                                            g1path, g3path, f2path))
                   ELSE Malformed]
  /\ InitProvider

\* The child lists of G1 in the specification of the repeated calls.
AgainLists ==
  { <<Child("F1", "main.swift")>>,
    <<Child("F1", "main.swift"), Child("G2", "utils")>>,
    <<Child("R1", "Zeta.h"), Child("F1", "main.swift")>>,
    <<Child("G3", "Utils"), Child("X1", "Gone.m")>> }

\* The specification of the repeated calls: a host that asks in any order,
\* any number of times.
InitAgain ==
  /\ host = "any"
  /\ rootPath = "/ws"
  /\ listing = MainListing
  /\ \E cl \in AgainLists :
       disk = [b \in Bundles |->
                 IF b = "App.xcodeproj"
                   THEN Parsable(PbxProject(cl, "Sources", "../Vendor",
                                            "\"Zeta Kit/Zeta.h\""))
                   ELSE Malformed]
  /\ InitProvider

\* The specification of the two projects: both bundles parse, to projects
\* that give the same identifiers different records, and the host asks in
\* any order.
TwoListing == <<"App.xcodeproj", "Lib.xcodeproj">>

AppLists == {<<Child("F1", "main.swift")>>, <<Child("G2", "utils")>>}

LibLists == {<<Child("R1", "Zeta.h")>>, <<Child("F1", "main.swift")>>, <<>>}

InitTwo ==
  /\ host = "any"
  /\ rootPath = "/ws"
  /\ listing = TwoListing
  /\ \E al \in AppLists, ll \in LibLists :
       disk = [b \in Bundles |->
                 IF b = "App.xcodeproj"
                   THEN Parsable(PbxProject(al, "Sources", "../Vendor",
                                            "\"Zeta Kit/Zeta.h\""))
                   ELSE Parsable(PbxProject(ll, Undefined, "\"My Lib\"",
                                            "Zeta.h"))]
  /\ InitProvider

\* The specification of the changing file: the contents project.pbxproj of
\* App.xcodeproj has, one after the other, while the host expands nodes in
\* any order.
VersionA == PbxProject(<<Child("F1", "main.swift")>>, "Sources", "../Vendor", "Zeta.h")

VersionB ==
  [PbxProject(<<Child("G2", "utils"), Child("R1", "Zeta.h")>>,
              "Sources", "../Vendor", "Zeta.h")
     EXCEPT !.pbxGroupSection.MG.children =
              <<Child("G2", "utils"), Child("G1", "Sources")>>]

Versions == {Parsable(VersionA), Parsable(VersionB), Malformed}

InitChange ==
  /\ host = "any"
  /\ rootPath = "/ws"
  /\ listing = MainListing
  /\ \E content \in Versions :
       disk = [b \in Bundles |-> IF b = "App.xcodeproj" THEN content ELSE Missing]
  /\ InitProvider

\* provideRootNode(), called once, when the tree explorer is activated
ProvideRootNode ==
  /\ nodes = <<>>
  /\ nodes' = <<RootNode(rootPath)>>
  /\ returned' = <<NotCalled>>
  /\ last' = [NoCall EXCEPT !.op = "provideRootNode", !.node = 1,
                            !.outcome = "ok"]
  /\ UNCHANGED <<host, rootPath, listing, disk, projects>>

\* The record of a resolveChildren(n) that constructed kids, having read
\* the two settings from the configuration
Resolved(n, kids, sortAlphabetically, directoriesFirst) ==
  LET base == Len(nodes)
      order == ResolveOrder(kids, sortAlphabetically, directoriesFirst)
  IN  [NoCall EXCEPT !.op = "resolveChildren", !.node = n, !.outcome = "ok",
                     !.children = [i \in 1..Len(kids) |-> base + i],
                     !.result = [i \in 1..Len(kids) |-> base + order[i]],
                     !.prev = returned[n],
                     !.sortAlphabetically = sortAlphabetically,
                     !.directoriesFirst = directoriesFirst]

\* The record of a resolveChildren(n) that ended with outcome ("throws":
\* the call threw; "rejects": the promise it returned was rejected)
Failed(n, outcome) ==
  [NoCall EXCEPT !.op = "resolveChildren", !.node = n, !.outcome = outcome,
                 !.prev = returned[n]]

\* The latest node the host has expanded (0: none yet).
Cursor ==
  LET done == {i \in 1..Len(returned) : returned[i].called}
  IN  IF done = {} THEN 0 ELSE CHOOSE i \in done : \A j \in done : j <= i

\* The host asks for the children of the nodes that have some
\* (getHasChildren).  A top-down host asks in the order the nodes were
\* constructed, and may ask again for those of the node it expanded last;
\* any other host asks in any order, any number of times.
HostAsks(n) ==
  /\ n \in 1..Len(nodes)
  /\ nodes[n].hasChildren
  /\ host = "top-down" => n >= Cursor

\* The nodes kids constructed by children() on n join the nodes.
Construct(n, kids) ==
  /\ Len(nodes) + Len(kids) <= MaxNodes
  /\ nodes' = nodes \o kids
  /\ \E sortAlphabetically \in BOOLEAN, directoriesFirst \in BOOLEAN :
       last' = Resolved(n, kids, sortAlphabetically, directoriesFirst)
  /\ returned' = [i \in 1..(Len(nodes) + Len(kids)) |->
                    IF i = n
                      THEN [called |-> TRUE, list |-> last'.children]
                      ELSE IF i <= Len(nodes) THEN returned[i] ELSE NotCalled]

\* resolveChildren(node) on the root node
ResolveRoot(n) ==
  /\ HostAsks(n)
  /\ nodes[n].kind = "Root"
  /\ IF listing = Unreadable
       THEN /\ last' = Failed(n, "throws")
            /\ UNCHANGED <<nodes, returned>>
       ELSE Construct(n, RootNode_children(n))
  /\ UNCHANGED <<host, rootPath, listing, disk, projects>>

\* resolveChildren(node) on a project node: parseSync throws inside the
\* promise's executor when the project file is missing or does not parse.
ResolveProject(n) ==
  /\ HostAsks(n)
  /\ nodes[n].kind = "Project"
  /\ LET content == IF nodes[n].file \in DOMAIN disk THEN disk[nodes[n].file]
                                                    ELSE Missing
     IN  IF Parses(content)
           THEN /\ projects' = Append(projects, content.project)
                /\ Construct(n, ProjectNode_children(n, content.project,
                                                     Len(projects) + 1))
           ELSE /\ last' = Failed(n, "rejects")
                /\ UNCHANGED <<nodes, returned, projects>>
  /\ UNCHANGED <<host, rootPath, listing, disk>>

\* resolveChildren(node) on a group node: this.group().children throws
\* inside the promise's executor when group() is undefined.
ResolveGroup(n) ==
  /\ HostAsks(n)
  /\ nodes[n].kind = "Group"
  /\ IF GroupNode_hasGroup(nodes[n])
       THEN Construct(n, GroupNode_children(n))
       ELSE /\ last' = Failed(n, "rejects")
            /\ UNCHANGED <<nodes, returned>>
  /\ UNCHANGED <<host, rootPath, listing, disk, projects>>

\* The command extension.openXcodeFileNode on a file node: node.path()
OpenXcodeFileNode(n) ==
  /\ nodes[n].clickCommand = "extension.openXcodeFileNode"
  /\ last' = [NoCall EXCEPT !.op = "openXcodeFileNode", !.node = n,
                            !.outcome = "ok", !.path = Path(n)]
  /\ UNCHANGED <<host, rootPath, listing, disk, nodes, projects, returned>>

\* Another program writes project.pbxproj of the bundle file.
ChangeFile(file, content) ==
  /\ nodes # <<>>
  /\ disk[file] # content
  /\ disk' = [disk EXCEPT ![file] = content]
  /\ last' = [NoCall EXCEPT !.op = "changeFile"]
  /\ UNCHANGED <<host, rootPath, listing, nodes, projects, returned>>

Next ==
  \/ ProvideRootNode
  \/ \E n \in 1..Len(nodes) : ResolveRoot(n)
  \/ \E n \in 1..Len(nodes) : ResolveProject(n)
  \/ \E n \in 1..Len(nodes) : ResolveGroup(n)
  \/ \E n \in 1..Len(nodes) : OpenXcodeFileNode(n)

Spec == Init /\ [][Next]_vars

SpecFiles == InitFiles /\ [][Next]_vars

SpecPaths == InitPaths /\ [][Next]_vars

SpecAgain == InitAgain /\ [][Next]_vars

SpecTwo == InitTwo /\ [][Next]_vars

NextChange ==
  \/ Next
  \/ \E content \in Versions : ChangeFile("App.xcodeproj", content)

SpecChange == InitChange /\ [][NextChange]_vars

(***************************************************************************)
(* What the claims speak of.                                               *)
(***************************************************************************)
\* The latest call was resolveChildren on a node of this kind.
CallOn(kind) ==
  /\ last.op = "resolveChildren"
  /\ nodes[last.node].kind = kind

\* ... and it returned a list.
ListOf(kind) == CallOn(kind) /\ last.outcome = "ok"

\* The identifier a node stands for.
IdOf(node) ==
  IF node.kind = "BuildFile" THEN node.data.fileRef ELSE node.data.value

\* The sections an identifier is found in.
KnownGroup(project, id) == id \in DOMAIN project.pbxGroupSection
KnownFile(project, id) == id \in DOMAIN project.pbxFileReferenceSection
KnownBuildRef(project, id) ==
  \E key \in DOMAIN project.pbxBuildFileSection :
    project.pbxBuildFileSection[key].fileRef = id
Resolvable(project, id) ==
  KnownGroup(project, id) \/ KnownFile(project, id) \/ KnownBuildRef(project, id)

\* The variant the stated precedence gives an identifier.
VariantByPrecedence(project, id) ==
  IF KnownGroup(project, id) THEN "Group"
  ELSE IF KnownFile(project, id) THEN "File"
  ELSE IF KnownBuildRef(project, id) THEN "BuildFile"
  ELSE "none"

\* The entries of the child list of the group node n that some section knows.
ResolvableChildren(n) ==
  LET project == projects[nodes[n].project]
      Known(child) == Resolvable(project, child.value)
  IN  SelectSeq(GroupNode_group(nodes[n]).children, Known)

(***************************************************************************)
(* C1: Group.children() turns each identifier of the group's child list    *)
(* into at most one node, a Group node if the identifier is a known group, *)
(* otherwise a File node if it is a key of the file-reference section,     *)
(* otherwise a BuildFile node if a build-file record has it as fileRef; an *)
(* identifier with a file-reference record never becomes a BuildFile node. *)
(***************************************************************************)
C1_Precedence ==
  ListOf("Group") =>
    LET project == projects[nodes[last.node].project]
        expected == ResolvableChildren(last.node)
    IN  /\ Len(last.children) = Len(expected)
        /\ \A i \in 1..Len(expected) :
             nodes[last.children[i]].kind =
               VariantByPrecedence(project, expected[i].value)
        /\ \A i \in 1..Len(last.children) :
             nodes[last.children[i]].kind = "BuildFile" =>
               ~KnownFile(project, nodes[last.children[i]].data.fileRef)

\* A group listing F1 (a file reference that a build file also names), R1
\* (named by a build file only) and a group has been expanded.
C1_Witness ==
  /\ ListOf("Group")
  /\ \E i, j, k \in 1..Len(last.children) :
       /\ nodes[last.children[i]].kind = "File"
       /\ KnownBuildRef(projects[nodes[last.node].project],
                        nodes[last.children[i]].data.value)
       /\ nodes[last.children[j]].kind = "BuildFile"
       /\ nodes[last.children[k]].kind = "Group"

(***************************************************************************)
(* C2: on a group whose child list holds identifiers found in no section,  *)
(* Group.children() completes without an error, its list has no entry for  *)
(* those identifiers, and every other identifier of the list, before or    *)
(* after an unresolvable one, still yields its node.                       *)
(***************************************************************************)
C2_UnresolvableSkipped ==
  (CallOn("Group") /\ GroupNode_hasGroup(nodes[last.node])) =>
    LET expected == ResolvableChildren(last.node)
    IN  /\ last.outcome = "ok"
        /\ Len(last.children) = Len(expected)
        /\ \A i \in 1..Len(last.children) :
             /\ IdOf(nodes[last.children[i]]) = expected[i].value
             /\ nodes[last.children[i]].parent = last.node

\* A group listing an unresolvable identifier between two resolvable ones
\* has been expanded.
C2_Witness ==
  /\ ListOf("Group")
  /\ LET project == projects[nodes[last.node].project]
         children == GroupNode_group(nodes[last.node]).children
     IN  /\ Len(children) = 3
         /\ Resolvable(project, children[1].value)
         /\ ~Resolvable(project, children[2].value)
         /\ Resolvable(project, children[3].value)
         /\ Len(last.children) = 2

(***************************************************************************)
(* C3: resolveChildren never delivers a failure to the host: with the root *)
(* directory unreadable Root.children() yields an empty list, and with a   *)
(* project's pbxproj file missing or malformed Project.children() resolves *)
(* to an empty list, neither throwing nor rejecting; a sibling Project    *)
(* node with a well-formed file still yields its children afterwards.      *)
(***************************************************************************)
C3_NoFailureReachesHost ==
  /\ CallOn("Root") =>
       /\ last.outcome = "ok"
       /\ listing = Unreadable => last.result = <<>>
  /\ CallOn("Project") =>
       /\ last.outcome = "ok"
       /\ IF nodes[last.node].file \in DOMAIN disk
               /\ Parses(disk[nodes[last.node].file])
            THEN last.result # <<>>
            ELSE last.result = <<>>

(***************************************************************************)
(* C6: for a root directory listing with N entries that are .xcodeproj     *)
(* bundles and any other entries, Root.children() returns exactly N        *)
(* Project nodes, one per bundle and labelled with the bundle's filename,  *)
(* and no node for another entry; with N = 0 it returns an empty list.     *)
(***************************************************************************)
C6_OneProjectPerBundle ==
  ListOf("Root") =>
    LET IsBundle(entry) == entry \in Bundles
        bundles == SelectSeq(listing, IsBundle)
    IN  /\ Len(last.children) = Len(bundles)
        /\ \A i \in 1..Len(bundles) :
             /\ nodes[last.children[i]].kind = "Project"
             /\ Label(nodes[last.children[i]]) = bundles[i]

\* The root of a directory with two bundles and three other entries has
\* been expanded.
C6_Witness ==
  /\ ListOf("Root")
  /\ listing = DirEntries
  /\ Len(last.children) = 2

(***************************************************************************)
(* C4: for every File node, path() is the parent Group's path() joined     *)
(* with the file-reference record's path field after one layer of          *)
(* surrounding double quotes has been stripped: "Sources/main.swift" (in   *)
(* quotes) under /repo/App gives /repo/App/Sources/main.swift.             *)
(***************************************************************************)
\* s without the pair of double quotes around it, if it has one.
WithoutSurroundingQuotes(s) ==
  IF Len(s) >= 2 /\ Ch(s, 1) = Quote /\ Ch(s, Len(s)) = Quote
    THEN SubSeq(s, 2, Len(s) - 1)
    ELSE s

\* The path field of the file-reference record of the File node n.
RecordPath(n) ==
  projects[nodes[n].project].pbxFileReferenceSection[nodes[n].data.value].path

C4_FilePath ==
  /\ \A n \in 1..Len(nodes) :
       nodes[n].kind = "File" =>
         /\ nodes[nodes[n].parent].kind = "Group"
         /\ Path(n) = PathJoin(<<Path(nodes[n].parent),
                                 WithoutSurroundingQuotes(RecordPath(n))>>)
  /\ last.op = "openXcodeFileNode" =>
       last.path = PathJoin(<<Path(nodes[last.node].parent),
                              WithoutSurroundingQuotes(RecordPath(last.node))>>)

\* The File node of the record path "Sources/main.swift" (in quotes), under
\* a group of path /repo/App, has been opened at
\* /repo/App/Sources/main.swift.
C4_Witness ==
  /\ last.op = "openXcodeFileNode"
  /\ RecordPath(last.node) = "\"Sources/main.swift\""
  /\ Path(nodes[last.node].parent) = "/repo/App"
  /\ last.path = "/repo/App/Sources/main.swift"

(***************************************************************************)
(* C5: for every Group node at any depth, path() is the root directory     *)
(* path joined, from the root down, with the path fields of exactly those  *)
(* groups on its parent chain (itself included) whose record has one; a    *)
(* group whose record has no path field returns its parent's path          *)
(* unchanged, and Root and Project nodes return the root directory path.   *)
(***************************************************************************)
RECURSIVE Segments(_)
\* The path fields of the groups on the parent chain of n, from the root
\* down.
Segments(n) ==
  IF nodes[n].kind \in {"Root", "Project"} THEN <<>>
  ELSE IF /\ nodes[n].kind = "Group"
          /\ GroupNode_hasGroup(nodes[n])
          /\ GroupNode_group(nodes[n]).path # Undefined
         THEN Append(Segments(nodes[n].parent), GroupNode_group(nodes[n]).path)
         ELSE Segments(nodes[n].parent)

C5_GroupPath ==
  \A n \in 1..Len(nodes) :
    /\ nodes[n].kind \in {"Root", "Project"} => Path(n) = rootPath
    /\ nodes[n].kind = "Group" =>
         /\ Path(n) = PathJoin(<<rootPath>> \o Segments(n))
         /\ (GroupNode_hasGroup(nodes[n])
               /\ GroupNode_group(nodes[n]).path = Undefined) =>
              Path(n) = Path(nodes[n].parent)

\* C5 for the Group nodes whose identifier is that of a group: the part of
\* C5 that the code satisfies.
C5_PathOfGroupsWithRecord ==
  \A n \in 1..Len(nodes) :
    /\ nodes[n].kind \in {"Root", "Project"} => Path(n) = rootPath
    /\ (nodes[n].kind = "Group" /\ GroupNode_hasGroup(nodes[n])) =>
         /\ Path(n) = PathJoin(<<rootPath>> \o Segments(n))
         /\ GroupNode_group(nodes[n]).path = Undefined =>
              Path(n) = Path(nodes[n].parent)

(***************************************************************************)
(* C7: with directoriesFirst=true (no condition on sortAlphabetically),    *)
(* the list resolveChildren returns for a Group node has every Group entry *)
(* before every File entry, within each of the two buckets the entries are *)
(* in case-sensitive lexicographic order of their labels, and entries with *)
(* equal sort keys keep the order in which Group.children() resolved them. *)
(***************************************************************************)
\* The characters of the labels in the order of their code units.
CodeUnitOrder ==
  " \"-./0123456789" \o UpperCase \o "_" \o LowerCase

CodeUnits ==
  [c \in {Ch(CodeUnitOrder, i) : i \in 1..Len(CodeUnitOrder)} |->
     IndexIn(c, CodeUnitOrder, 1)]

RECURSIVE CodeUnitCompare(_, _, _)
\* The case-sensitive lexicographic comparison of a and b from position i.
CodeUnitCompare(a, b, i) ==
  IF i > Len(a) /\ i > Len(b) THEN 0
  ELSE IF i > Len(a) THEN -1
  ELSE IF i > Len(b) THEN 1
  ELSE IF CodeUnits[Ch(a, i)] < CodeUnits[Ch(b, i)] THEN -1
  ELSE IF CodeUnits[Ch(a, i)] > CodeUnits[Ch(b, i)] THEN 1
  ELSE CodeUnitCompare(a, b, i + 1)

IsGroupNode(n) == nodes[n].kind = "Group"

\* No entry that is not a Group before a Group entry.
GroupsFirst(result) ==
  \A i, j \in 1..Len(result) :
    (i < j /\ IsGroupNode(result[j])) => IsGroupNode(result[i])

\* Entries with equal sort keys are in the order of their construction.
KeepsResolutionOrder(result, directoriesFirst) ==
  \A i, j \in 1..Len(result) :
    (i < j /\ SortKey(nodes[result[i]], directoriesFirst)
                = SortKey(nodes[result[j]], directoriesFirst)) =>
      result[i] < result[j]

\* The claim as stated.
C7_SortedWheneverDirectoriesFirst ==
  (ListOf("Group") /\ last.directoriesFirst) =>
    /\ GroupsFirst(last.result)
    /\ \A i, j \in 1..Len(last.result) :
         (i < j /\ IsGroupNode(last.result[i]) = IsGroupNode(last.result[j])) =>
           CodeUnitCompare(Label(nodes[last.result[i]]),
                           Label(nodes[last.result[j]]), 1) <= 0
    /\ KeepsResolutionOrder(last.result, TRUE)

\* The claim as stated, for the calls that read sortAlphabetically=true: the
\* order within a bucket is not the order of the code units.
C7_CodeUnitOrderWhenSorted ==
  (ListOf("Group") /\ last.directoriesFirst /\ last.sortAlphabetically) =>
    \A i, j \in 1..Len(last.result) :
      (i < j /\ IsGroupNode(last.result[i]) = IsGroupNode(last.result[j])) =>
        CodeUnitCompare(Label(nodes[last.result[i]]),
                        Label(nodes[last.result[j]]), 1) <= 0

\* C7 as amended: with sortAlphabetically=true and directoriesFirst=true,
\* the list has the nodes children() resolved, every Group entry before
\* every File or BuildFile entry, within each bucket the entries in the
\* order of localeCompare on their labels (letters first without regard to
\* case, lower case before upper case on a tie), and entries with equal sort
\* keys in the order in which children() resolved them.
C7_SortedWhenBothSet ==
  (ListOf("Group") /\ last.sortAlphabetically /\ last.directoriesFirst) =>
    /\ Len(last.result) = Len(last.children)
    /\ Range(last.result) = Range(last.children)
    /\ GroupsFirst(last.result)
    /\ \A i, j \in 1..Len(last.result) :
         (i < j /\ IsGroupNode(last.result[i]) = IsGroupNode(last.result[j])) =>
           LocaleCompare(Label(nodes[last.result[i]]),
                         Label(nodes[last.result[j]])) <= 0
    /\ KeepsResolutionOrder(last.result, TRUE)

\* A sorted call has moved a group before the files listed ahead of it, two
\* of them with equal sort keys.
C7_Witness ==
  /\ ListOf("Group") /\ last.sortAlphabetically /\ last.directoriesFirst
  /\ Len(last.children) = 3
  /\ ~IsGroupNode(last.children[1])
  /\ IsGroupNode(last.children[3])
  /\ last.result[1] = last.children[3]
  /\ SortKey(nodes[last.children[1]], TRUE) = SortKey(nodes[last.children[2]], TRUE)

(***************************************************************************)
(* C8: with sortAlphabetically=false, the list resolveChildren returns for *)
(* a Group node has its entries in the order in which their identifiers    *)
(* appear in the group record's child list (groups, files and build files  *)
(* interleaved as listed), whatever the value of directoriesFirst.         *)
(***************************************************************************)
C8_NativeOrder ==
  (ListOf("Group") /\ ~last.sortAlphabetically) =>
    LET expected == ResolvableChildren(last.node)
    IN  /\ Len(last.result) = Len(expected)
        /\ \A i \in 1..Len(expected) :
             /\ IdOf(nodes[last.result[i]]) = expected[i].value
             /\ last.result[i] = last.children[i]

\* An unsorted call with directoriesFirst=true has returned a build file
\* ahead of a group, as listed.
C8_Witness ==
  /\ ListOf("Group") /\ ~last.sortAlphabetically /\ last.directoriesFirst
  /\ \E i, j \in 1..Len(last.result) :
       /\ i < j
       /\ nodes[last.result[i]].kind = "BuildFile"
       /\ nodes[last.result[j]].kind = "Group"

(***************************************************************************)
(* C9: on an unchanged project model, two calls of children() on the same  *)
(* Group node (other expansions or a sorted resolveChildren between them)  *)
(* yield lists of the same length whose entries agree, position by         *)
(* position, in variant, label() and path().                               *)
(***************************************************************************)
C9_SameChildrenAgain ==
  (ListOf("Group") /\ last.prev.called) =>
    /\ Len(last.children) = Len(last.prev.list)
    /\ \A i \in 1..Len(last.children) :
         /\ nodes[last.children[i]].kind = nodes[last.prev.list[i]].kind
         /\ Label(nodes[last.children[i]]) = Label(nodes[last.prev.list[i]])
         /\ Path(last.children[i]) = Path(last.prev.list[i])

\* A group has been asked again after the host had expanded one of the
\* nodes of its earlier list.
C9_Witness ==
  /\ ListOf("Group") /\ last.prev.called
  /\ Len(last.children) >= 1
  /\ \E i \in 1..Len(last.prev.list) : returned[last.prev.list[i]].called

(***************************************************************************)
(* C10: Project.children() yields one node per child identifier of the     *)
(* main group, in list order, each of the variant of the record its        *)
(* identifier refers to: for [G1 (a group), F1 (a file reference)] a Group *)
(* node and a terminal File node (hasChildren false), not two Group nodes. *)
(***************************************************************************)
C10_MainGroupVariants ==
  ListOf("Project") =>
    LET project == projects[Len(projects)]
        listed == project.pbxGroupSection[
                    project.pbxProjectSection[project.rootObject].mainGroup].children
    IN  /\ Len(last.children) = Len(listed)
        /\ \A i \in 1..Len(listed) :
             /\ IdOf(nodes[last.children[i]]) = listed[i].value
             /\ nodes[last.children[i]].kind =
                  VariantByPrecedence(project, listed[i].value)
             /\ KnownFile(project, listed[i].value) =>
                  ~nodes[last.children[i]].hasChildren

(***************************************************************************)
(* C11: for any interleaving of expansions in the subtrees of two Project  *)
(* nodes, each Project expansion parses a model instance of its own, every *)
(* node below a Project node uses only the instance of the Project         *)
(* expansion it descends from, and the children, labels and paths obtained *)
(* in one project's subtree are those its own pbxproj file gives, whatever *)
(* has been expanded in the other project.                                 *)
(***************************************************************************)
RECURSIVE TopOf(_)
\* The node of the parent chain of n that is a child of a Project node.
TopOf(n) ==
  IF nodes[nodes[n].parent].kind = "Project" THEN n ELSE TopOf(nodes[n].parent)

\* The nodes below the Project nodes.
BelowProjects == {n \in 1..Len(nodes) : nodes[n].kind \notin {"Root", "Project"}}

\* The Project node n descends from, and what its pbxproj file holds.
ProjectOf(n) == nodes[TopOf(n)].parent
OwnModel(n) == disk[nodes[ProjectOf(n)].file].project

\* The label the record of a child-list entry gives its node.
OwnLabel(project, child) ==
  IF KnownGroup(project, child.value) \/ KnownFile(project, child.value)
    THEN child.comment
    ELSE LET key == CHOOSE k \in DOMAIN project.pbxBuildFileSection :
                      project.pbxBuildFileSection[k].fileRef = child.value
         IN  project.pbxBuildFileSection[key].fileRef_comment

RECURSIVE OwnPath(_, _)
\* path() of the node n below a Project node, read from project alone.
OwnPath(project, n) ==
  LET parentPath == IF nodes[nodes[n].parent].kind = "Project"
                      THEN rootPath
                      ELSE OwnPath(project, nodes[n].parent)
  IN  CASE nodes[n].kind = "Group" ->
             LET segment == project.pbxGroupSection[nodes[n].data.value].path
             IN  IF segment = Undefined THEN parentPath
                 ELSE PathJoin(<<parentPath, segment>>)
        [] nodes[n].kind = "File" ->
             PathJoin(<<parentPath,
                        WithoutSurroundingQuotes(
                          project.pbxFileReferenceSection[nodes[n].data.value].path)>>)
        [] OTHER -> PathJoin(<<parentPath, nodes[n].data.fileRef_comment>>)

C11_OwnModelInstance ==
  /\ \A n \in BelowProjects :
       /\ nodes[n].project = nodes[TopOf(n)].project
       /\ projects[nodes[n].project] = OwnModel(n)
  /\ \A a, b \in BelowProjects :
       ProjectOf(a) # ProjectOf(b) => nodes[a].project # nodes[b].project
  /\ (ListOf("Group") /\ GroupNode_hasGroup(nodes[last.node])) =>
       LET own == OwnModel(last.node)
           listed == own.pbxGroupSection[nodes[last.node].data.value].children
           Known(child) == Resolvable(own, child.value)
           expected == SelectSeq(listed, Known)
       IN  /\ Len(last.children) = Len(expected)
           /\ \A i \in 1..Len(expected) :
                /\ IdOf(nodes[last.children[i]]) = expected[i].value
                /\ nodes[last.children[i]].kind =
                     VariantByPrecedence(own, expected[i].value)
                /\ Label(nodes[last.children[i]]) = OwnLabel(own, expected[i])
                /\ Path(last.children[i]) = OwnPath(own, last.children[i])

\* A group of the second project has been expanded after the first project
\* had been parsed later than the second: the instance parsed last is not
\* the one the group uses.
C11_Witness ==
  /\ ListOf("Group")
  /\ Len(last.children) >= 1
  /\ nodes[ProjectOf(last.node)].file = "Lib.xcodeproj"
  /\ nodes[last.node].project < Len(projects)
  /\ projects[Len(projects)] # OwnModel(last.node)
  /\ \E m \in BelowProjects : nodes[ProjectOf(m)].file = "App.xcodeproj"

(***************************************************************************)
(* C12: every expansion re-reads and re-parses the project: in any         *)
(* sequence of expansions interleaved with changes of the pbxproj file,    *)
(* the children returned by expanding a node, Project or Group, reflect    *)
(* the file's content at the time of that expansion, not the content at    *)
(* the time an ancestor was expanded.                                      *)
(***************************************************************************)
\* The identifiers of the nodes at the positions list.
IdsOf(list) == [i \in 1..Len(list) |-> IdOf(nodes[list[i]])]

\* The identifiers project lists for the group id that some section knows.
ListedIn(project, id) ==
  LET Known(child) == Resolvable(project, child.value)
      listed == SelectSeq(project.pbxGroupSection[id].children, Known)
  IN  [i \in 1..Len(listed) |-> listed[i].value]

\* The identifiers project lists for its main group.
MainListedIn(project) ==
  LET listed == project.pbxGroupSection[
                  project.pbxProjectSection[project.rootObject].mainGroup].children
  IN  [i \in 1..Len(listed) |-> listed[i].value]

\* What the pbxproj file of the project above the node n holds now.
FileNow(n) ==
  IF nodes[n].kind = "Project" THEN disk[nodes[n].file]
  ELSE disk[nodes[ProjectOf(n)].file]

\* The claim as stated.
C12_ReflectsFileAtExpansion ==
  /\ ListOf("Project") =>
       IdsOf(last.children) = MainListedIn(FileNow(last.node).project)
  /\ (/\ ListOf("Group")
      /\ Parses(FileNow(last.node))
      /\ KnownGroup(FileNow(last.node).project, nodes[last.node].data.value)) =>
       IdsOf(last.children) =
         ListedIn(FileNow(last.node).project, nodes[last.node].data.value)

\* C12 as amended: every Project expansion reads and parses the pbxproj
\* file, so its children are those the file lists at that time, and it
\* hands the project it parsed to the nodes it makes; a Group expansion
\* reads no file: its children are those listed by the project its Project
\* ancestor parsed and handed down, whatever the file holds by then.
C12_ProjectReadsGroupKeeps ==
  /\ ListOf("Project") =>
       /\ Parses(FileNow(last.node))
       /\ projects[Len(projects)] = FileNow(last.node).project
       /\ IdsOf(last.children) = MainListedIn(FileNow(last.node).project)
       /\ \A i \in 1..Len(last.children) :
            nodes[last.children[i]].project = Len(projects)
  /\ (ListOf("Group") /\ GroupNode_hasGroup(nodes[last.node])) =>
       LET handed == projects[nodes[TopOf(last.node)].project]
       IN  /\ IdsOf(last.children) =
                ListedIn(handed, nodes[last.node].data.value)
           /\ \A i \in 1..Len(last.children) :
                /\ nodes[last.children[i]].kind =
                     VariantByPrecedence(handed, IdOf(nodes[last.children[i]]))
                /\ nodes[last.children[i]].project = nodes[TopOf(last.node)].project

\* The projects parsed are kept as they were parsed.
C12_ParsedProjectsKept ==
  [][\A i \in 1..Len(projects) : projects'[i] = projects[i]]_vars

\* A group has been expanded after the file had changed the list of that
\* group: the children returned are those of the project parsed before the
\* change.
C12_Witness ==
  /\ ListOf("Group")
  /\ Len(last.children) >= 1
  /\ Parses(FileNow(last.node))
  /\ KnownGroup(FileNow(last.node).project, nodes[last.node].data.value)
  /\ IdsOf(last.children) #
       ListedIn(FileNow(last.node).project, nodes[last.node].data.value)

(***************************************************************************)
(* C13: after any finite sequence of expansions from provideRootNode, the  *)
(* parent links of the nodes created form a finite chain from each node up *)
(* to the Root node with no node repeated, so path() on a Group, File or   *)
(* BuildFile node ends after as many steps as the node is deep, also when  *)
(* the groups of the project list each other in a cycle: the parent of a   *)
(* node is always a node constructed before it.                            *)
(***************************************************************************)
RECURSIVE Ancestor(_, _)
\* The node k parent links above n, or the Root node if the chain is
\* shorter.
Ancestor(n, k) ==
  IF k = 0 THEN n
  ELSE LET below == Ancestor(n, k - 1)
       IN  IF nodes[below].kind = "Root" THEN below ELSE nodes[below].parent

C13_ParentChainsEnd ==
  /\ \A n \in 1..Len(nodes) :
       IF n = 1 THEN nodes[n].kind = "Root"
       ELSE nodes[n].kind # "Root" /\ nodes[n].parent \in 1..(n - 1)
  /\ \A n \in 1..Len(nodes) :
       \E depth \in 0..(Len(nodes) - 1) :
         /\ Ancestor(n, depth) = 1
         /\ \A i, j \in 0..depth : i < j => Ancestor(n, i) # Ancestor(n, j)
         /\ PathSteps(n) = depth

\* The groups G1 and G3 list each other, and the host has gone round the
\* cycle: a node of G1 has a node of G1 above it, and its path() takes as
\* many steps as it is deep.
C13_Witness ==
  \E n \in 1..Len(nodes) :
    /\ nodes[n].kind = "Group"
    /\ \E k \in 1..Len(nodes) :
         /\ Ancestor(n, k) # n
         /\ nodes[Ancestor(n, k)].kind = "Group"
         /\ nodes[Ancestor(n, k)].data.value = nodes[n].data.value
    /\ PathSteps(n) = 4
    /\ Path(n) # TypeError

=============================================================================
